---------------------------- MODULE Spec2Model ----------------------------
(***************************************************************************)
(* Model of schedule-ptuse-pb.py, the schedule-block sequence composer,    *)
(* of make_ptuse.py, which builds one schedule block, and of the three     *)
(* observation scripts beamform_single_pulsar.py, beamform_fluxcal.py and  *)
(* beamform_flux_1.py.                                                     *)
(*                                                                         *)
(* Representation of Python values:                                        *)
(*  - a str is a sequence of pieces; a piece is either the single space    *)
(*    " " or a maximal run of non-space characters.  "" is << >>.  String  *)
(*    concatenation is \o, so joins, "%s" formatting and "{}".format keep   *)
(*    every space of the source text;                                      *)
(*  - a dict is a function whose DOMAIN is the set of its keys;            *)
(*  - an optional value is a sequence of length at most one: None is       *)
(*    << >> and the value v is << v >>;                                    *)
(*  - a list is a sequence.                                                *)
(***************************************************************************)
EXTENDS Integers, Sequences, FiniteSets, TLC

VARIABLES
    pc,           \* position of the script
    config,       \* parsed command line: file (optional), groupkey
    registry,     \* the module-level DEFAULTS dict
    group,        \* the list of Sequences handed to populate_ptuse_sbs
    sequence,     \* enumerate index of the outer loop (0-based)
    order,        \* enumerate index of the inner loop (0-based)
    created_sbs,  \* handles returned by obs.sb.new, in creation order
    db,           \* schedule blocks held by the scheduling service
    pb,           \* the program block held by the scheduling service
    assigned,     \* number of handles main has passed to obs.pb.assign_sb
    calls,        \* requests sent to the scheduling service, in order
    error,        \* the exception that ended the run, "" if none
    pending,      \* groups the caller composes after the current one
    returned,     \* what the completed calls of populate_ptuse_sbs returned
    stream,       \* observation script: beamformer streams already handled
    inp,          \* observation script: inputs of the stream already handled
    sources,      \* observation script: the catalogue, None while unbound
    observed      \* observation script: targets of the catalogue observed

\* the locals of the observation scripts
scriptVars == << stream, inp, sources, observed >>

\* the state of the composer apart from the schedule blocks
composerVars == << registry, group, sequence, order, created_sbs, pb, assigned,
                  pending, returned >>

vars == << pc, config, registry, group, sequence, order, created_sbs, db, pb,
           assigned, calls, error, pending, returned, scriptVars >>

---------------------------------------------------------------------------
(* Bounds of the model *)

\* longest generic csv file, in lines
MaxRows == 3
\* most Sequences in a group passed directly to populate_ptuse_sbs
MaxSeqs == 3
\* most steps, over all Sequences, in such a group
MaxSteps == 2

---------------------------------------------------------------------------
(* Python strings, optionals and dicts *)

SP == " "
EmptyStr == << >>
W(w) == << w >>

None == << >>
Some(v) == << v >>

\* d.get(key, default)
Get(d, key, default) == IF key \in DOMAIN d THEN d[key] ELSE default

RECURSIVE Join(_, _)
\* sep.join(list)
Join(sep, list) ==
    IF Len(list) = 0 THEN EmptyStr
    ELSE IF Len(list) = 1 THEN list[1]
    ELSE list[1] \o sep \o Join(sep, Tail(list))

\* the text of several words separated by single spaces
Words(ws) == Join(<< SP >>, [i \in 1..Len(ws) |-> W(ws[i])])

RECURSIVE Format(_, _)
\* fmt.format(arg): every "{}" piece of fmt is replaced by arg
Format(fmt, arg) ==
    IF Len(fmt) = 0 THEN EmptyStr
    ELSE (IF Head(fmt) = "{}" THEN arg ELSE << Head(fmt) >>)
             \o Format(Tail(fmt), arg)

\* "-t %s" % v
TimeStr(v) == << "-t", SP >> \o v

---------------------------------------------------------------------------
(* The Defaults Registry *)

PhaseupNotes ==
    Words(<< "This", "phase", "up", "can", "be", "run", "for", "all",
             "imaging", "observations", "...", "in", "all", "modes.",
             "There", "is", "no", "need", "to", "specify", "the", "target",
             "or", "default", "gains", "as", "these", "are", "chosen", "by",
             "the", "script." >>)

Ids405 ==
    Words(<< "--proposal-id='MKAIV-330'", "--program-block-id='MKAIV-405'",
             "--issue-id='MKAIV-405'" >>)

DEFAULTS ==
    [ phaseupfb |->
        [ owner |-> W("sarah"),
          description_format |->
              Words(<< "MKAIV-405", "Generic", "AR1", "flatten", "{}" >>),
          instruction_set |->
              << "run-obs-script", SP,
                 "/home/kat/katsdpscripts/observation/bf_phaseup.py", SP >>,
          time |-> Words(<< "-t", "600" >>),
          params |->
              Words(<< "--horizon=20", "--flatten-bandpass", "-n", "'off'" >>),
          ids |-> Ids405,
          notes |-> PhaseupNotes,
          antenna_spec |-> W("available"),
          controlled_resources |-> W("cbf,sdp") ],
      phaseup |->
        [ owner |-> W("sarah"),
          description_format |->
              Words(<< "MKAIV-405", "Generic", "AR1", "{}" >>),
          instruction_set |->
              << "run-obs-script", SP,
                 "/home/kat/katsdpscripts/observation/bf_phaseup.py", SP >>,
          time |-> Words(<< "-t", "64" >>),
          params |-> Words(<< "--horizon=20", "-n", "'off'" >>),
          ids |-> Ids405,
          notes |-> PhaseupNotes,
          antenna_spec |-> W("available"),
          controlled_resources |-> W("cbf,sdp") ],
      delaycal |->
        [ owner |-> W("sarah"),
          description_format |->
              Words(<< "MKAIV-405", "Generic", "AR1", "{}" >>),
          instruction_set |->
              << "run-obs-script", SP,
                 "/home/kat/katsdpscripts/observation/calibrate_delays.py",
                 SP, SP, "'/home/kat/katsdpcatalogues/three_calib.csv'", SP >>,
          time |-> Words(<< "-t", "64" >>),
          params |-> Words(<< "--horizon=20", "-n", "'off'" >>),
          ids |->
              Words(<< "--proposal-id='MKAIV-584'",
                       "--program-block-id='MKAIV-584'",
                       "--issue-id='MKAIV-584'" >>),
          notes |-> EmptyStr,
          antenna_spec |-> W("available"),
          controlled_resources |-> W("cbf,sdp") ],
      target |->
        [ owner |-> W("sarah"),
          description_format |-> Words(<< "MKAIV-387:", "CBF", "{}" >>),
          instruction_set |->
              << "run-obs-script", SP,
                 "/home/kat/katusescripts/ptuse/beamform_single_pulsar.py",
                 SP >>,
          time |-> Words(<< "-t", "600" >>),
          params |-> Words(<< "-B", "856", "-F", "1284", "--horizon", "20" >>),
          ids |->
              Words(<< "--proposal-id='FST-TRNS'",
                       "--program-block-id='MKAIV-387'",
                       "--issue-id='MKAIV-387'" >>),
          antenna_spec |-> W("available"),
          controlled_resources |-> W("cbf,sdp,ptuse_1") ] ]

---------------------------------------------------------------------------
(* The literal Group Source *)

Step(target) == [ target |-> W(target) ]
StepT(target, secs) == [ target |-> W(target), time |-> Words(<< "-t", secs >>) ]

\* mutant: the brackets between the Sequences are lost
sb_groups_default_Merged ==
    << << Step("phaseup"), Step("J0437-4715"), Step("J0738-4042"),
          Step("phaseup"), Step("J0742-2822"), Step("J0835-4510"),
          Step("phaseup"), Step("J0437-4715"), Step("J0953+0755") >> >>

sb_groups_default ==
    << << Step("phaseup"), Step("J0437-4715"), Step("J0738-4042") >>,
       << Step("phaseup"), Step("J0742-2822"), Step("J0835-4510") >>,
       << Step("phaseup"), Step("J0437-4715"), Step("J0953+0755") >> >>

sb_groups_test ==
    << << [ target |-> W("J1909-3744"), time |-> Words(<< "-t", "300" >>),
            owner |-> W("sarah") ] >>,
       << Step("phaseup"), StepT("J0437-4715", "600") >> >>

sb_groups_puls1 ==
    << << Step("phaseup"), StepT("J0437-4715", "600"),
          StepT("J0738-4042", "600") >>,
       << Step("phaseup"), StepT("J0437-4715", "600"),
          StepT("J0738-4042", "600") >>,
       << Step("phaseup"), StepT("J0437-4715", "600"),
          StepT("J0738-4042", "600") >> >>

sb_groups_puls2 ==
    << << Step("phaseup"), StepT("J1909-3744", "60"),
          StepT("J1644-4559", "60") >>,
       << Step("phaseup"), StepT("J1644-4559", "60"),
          StepT("J1909-3744", "60") >> >>

GROUPS ==
    [ puls1 |-> sb_groups_puls1,
      puls2 |-> sb_groups_puls2,
      sarah |-> sb_groups_test,
      default |-> sb_groups_default ]

---------------------------------------------------------------------------
(* The tabular Group Source.  A file is a sequence of lines, a line the    *)
(* sequence of its comma-separated fields.                                 *)

RECURSIVE DictReader(_)
\* csv.DictReader(f, fieldnames=('target','time')): a line without fields is
\* skipped, a missing field reads as None, fields past the second are not
\* read by the caller.
DictReader(file) ==
    IF Len(file) = 0 THEN << >>
    ELSE IF Len(Head(file)) = 0 THEN DictReader(Tail(file))
    ELSE << [ target |-> Head(file)[1],
              time |-> IF Len(Head(file)) >= 2 THEN Some(Head(file)[2])
                       ELSE None ] >>
             \o DictReader(Tail(file))

\* mutant: the test of the row's target is lost, any row closes
CloseAt_AnyRow(kind, row, acc) ==
    IF Len(acc.alist) > 0
    THEN [ listoflists |-> Append(acc.listoflists, acc.alist),
           alist |-> << >> ]
    ELSE acc

\* mutant: at a boundary the open Sequence is dropped instead of appended
CloseAt_DropsOpen(kind, row, acc) ==
    IF row.target = W(kind) /\ Len(acc.alist) > 0
    THEN [ listoflists |-> acc.listoflists, alist |-> << >> ]
    ELSE acc

\* mutant: the test len(alist) > 0 is missing
CloseAt_NoLenTest(kind, row, acc) ==
    IF row.target = W(kind)
    THEN [ listoflists |-> Append(acc.listoflists, acc.alist),
           alist |-> << >> ]
    ELSE acc

\* the accumulator after the boundary test for one kind name
CloseAt(kind, row, acc) ==
    IF row.target = W(kind) /\ Len(acc.alist) > 0
    THEN [ listoflists |-> Append(acc.listoflists, acc.alist),
           alist |-> << >> ]
    ELSE acc

\* mutant: the test for None is missing, "-t %s" formats None
RowStep_TimeOfNone(row) ==
    [ target |-> row.target,
      time |-> TimeStr(IF row.time = None THEN W("None") ELSE row.time[1]) ]

\* the step appended for a row
RowStep(row) ==
    IF row.time = None
    THEN [ target |-> row.target ]
    ELSE [ target |-> row.target, time |-> TimeStr(row.time[1]) ]

\* mutant: only "phaseup" is tested, the test for "phaseupfb" is missing
ReadRow_PhaseupOnly(row, acc) ==
    LET a1 == CloseAt("phaseup", row, acc)
    IN  [ listoflists |-> a1.listoflists,
          alist |-> Append(a1.alist, RowStep(row)) ]

\* one iteration of the loop over the rows
ReadRow(row, acc) ==
    LET a1 == CloseAt("phaseup", row, acc)
        a2 == CloseAt("phaseupfb", row, a1)
    IN  [ listoflists |-> a2.listoflists,
          alist |-> Append(a2.alist, RowStep(row)) ]

RECURSIVE ReadRows(_, _)
ReadRows(rows, acc) ==
    IF Len(rows) = 0 THEN acc
    ELSE ReadRows(Tail(rows), ReadRow(Head(rows), acc))

read_group_from_csv(file) ==
    LET acc == ReadRows(DictReader(file),
                        [ listoflists |-> << >>, alist |-> << >> ])
    IN  Append(acc.listoflists, acc.alist)

---------------------------------------------------------------------------
(* The Sequence Composer: what populate_ptuse_sbs computes for one step *)

\* mutant: the phaseupfb branch looks up the phaseup entry
KindKey_FbAsPhaseup(sb_type) ==
    IF sb_type = W("phaseup") THEN "phaseup"
    ELSE IF sb_type = W("phaseupfb") THEN "phaseup"
    ELSE IF sb_type = W("delaycal") THEN "delaycal"
    ELSE "target"

\* mutant: the delaycal branch is missing, delaycal is served as a target
KindKey_NoDelaycal(sb_type) ==
    IF sb_type = W("phaseup") THEN "phaseup"
    ELSE IF sb_type = W("phaseupfb") THEN "phaseupfb"
    ELSE "target"

\* the DEFAULTS key chosen by the chain of comparisons on sb_type
KindKey(sb_type) ==
    IF sb_type = W("phaseup") THEN "phaseup"
    ELSE IF sb_type = W("phaseupfb") THEN "phaseupfb"
    ELSE IF sb_type = W("delaycal") THEN "delaycal"
    ELSE "target"

\* mutant: the defaults record is asked first, the step second
specific_or_default_DefaultsFirst(sb_params, sb_defaults, label) ==
    Get(sb_defaults, label, Get(sb_params, label, EmptyStr))

specific_or_default(sb_params, sb_defaults, label) ==
    Get(sb_params, label, Get(sb_defaults, label, EmptyStr))

\* mutant: every kind gets the four-field template of the boundary kinds
InstructionSet_BoundaryTemplate(sb_params, sb_defaults) ==
    LET f(label) == specific_or_default(sb_params, sb_defaults, label)
    IN  Join(<< SP >>,
             << f("instruction_set"), f("time"), f("params"), f("ids") >>)

InstructionSet(sb_params, sb_defaults) ==
    LET f(label) == specific_or_default(sb_params, sb_defaults, label)
    IN  IF sb_params.target = W("phaseup") \/ sb_params.target = W("phaseupfb")
        THEN Join(<< SP >>,
                  << f("instruction_set"), f("time"), f("params"), f("ids") >>)
        ELSE Join(<< SP >>,
                  << f("instruction_set"), f("target"), f("time"),
                     f("params"), f("ids") >>)

\* mutant: the format string is stored without .format being applied
Description_Unformatted(sb_params, sb_defaults) ==
    specific_or_default(sb_params, sb_defaults, "description_format")

Description(sb_params, sb_defaults) ==
    Format(specific_or_default(sb_params, sb_defaults, "description_format"),
           sb_params.target)

\* the schedule block as obs.sb.new leaves it in the scheduling service
NewSb(id, sb_params, sb_defaults) ==
    LET f(label) == specific_or_default(sb_params, sb_defaults, label)
    IN  [ id |-> id,
          owner |-> f("owner"),
          antenna_spec |-> f("antenna_spec"),
          controlled_resources |-> f("controlled_resources"),
          pb_id |-> IF f("pb_id") = EmptyStr THEN None ELSE Some(f("pb_id")),
          type |-> "",
          description |-> EmptyStr,
          instruction_set |-> EmptyStr,
          notes |-> EmptyStr,
          sb_sequence |-> None,
          sb_order |-> None,
          state |-> "DRAFT" ]

\* mutant: sb_sequence and sb_order are set from each other's index
FilledSb_Swapped(sb, sb_params, sb_defaults, seq, ord) ==
    [ sb EXCEPT !.type = "OBSERVATION",
                !.description = Description(sb_params, sb_defaults),
                !.instruction_set = InstructionSet(sb_params, sb_defaults),
                !.notes = specific_or_default(sb_params, sb_defaults, "notes"),
                !.sb_sequence = Some(ord),
                !.sb_order = Some(seq) ]

\* the attributes set on obs.sb between new and to_defined
FilledSb(sb, sb_params, sb_defaults, seq, ord) ==
    [ sb EXCEPT !.type = "OBSERVATION",
                !.description = Description(sb_params, sb_defaults),
                !.instruction_set = InstructionSet(sb_params, sb_defaults),
                !.notes = specific_or_default(sb_params, sb_defaults, "notes"),
                !.sb_sequence = Some(seq),
                !.sb_order = Some(ord) ]

Call(op, id) == [ op |-> op, sb |-> id ]

NoPb == [ state |-> "NONE", owner |-> EmptyStr, sbs |-> << >> ]

\* the step the two loops of populate_ptuse_sbs are at
InLoop == sequence < Len(group) /\ order < Len(group[sequence + 1])
sb_params == group[sequence + 1][order + 1]
sb_defaults == registry[KindKey(sb_params.target)]

---------------------------------------------------------------------------
(* Inputs *)

\* the lines the generic csv files are made of
CsvLines ==
    { << >>,
      << W("phaseup") >>,
      << W("phaseup"), EmptyStr >>,
      << W("phaseupfb") >>,
      << W("delaycal") >>,
      << W("J0437-4715") >>,
      << W("J0437-4715"), EmptyStr >>,
      << W("J0437-4715"), W("600") >>,
      << EmptyStr, W("600") >> }

\* phaseup,/J0437-4715,600/phaseup,/J0738-4042,300
RoundTripFile ==
    << << W("phaseup"), EmptyStr >>, << W("J0437-4715"), W("600") >>,
       << W("phaseup"), EmptyStr >>, << W("J0738-4042"), W("300") >> >>

\* the targets of sb_groups_default, one per line and nothing else on it
DefaultFile ==
    << << W("phaseup") >>, << W("J0437-4715") >>, << W("J0738-4042") >>,
       << W("phaseup") >>, << W("J0742-2822") >>, << W("J0835-4510") >>,
       << W("phaseup") >>, << W("J0437-4715") >>, << W("J0953+0755") >> >>

SeqsUpTo(S, n) == UNION { [1..k -> S] : k \in 0..n }

CsvFiles == SeqsUpTo(CsvLines, MaxRows) \cup { RoundTripFile, DefaultFile }

\* "cam" is offered by the help text of --groupkey and is not in GROUPS
GroupKeys == { "default", "puls1", "puls2", "sarah", "cam" }

Configs ==
    { [ file |-> Some(f), groupkey |-> "default" ] : f \in CsvFiles }
      \cup { [ file |-> None, groupkey |-> k ] : k \in GroupKeys }

\* the steps of the groups passed directly to populate_ptuse_sbs
ComposeSteps ==
    { Step("phaseup"), Step("phaseupfb"), Step("delaycal"),
      StepT("J0437-4715", "300"),
      [ target |-> W("bogus_kind"), time |-> EmptyStr ] }

RECURSIVE GroupsWithin(_, _)
\* the groups of at most n Sequences holding at most budget steps together
GroupsWithin(n, budget) ==
    IF n = 0 THEN { << >> }
    ELSE { << >> } \cup
         UNION { { << sq >> \o g : g \in GroupsWithin(n - 1, budget - Len(sq)) }
                 : sq \in SeqsUpTo(ComposeSteps, budget) }

ComposeGroups == GroupsWithin(MaxSeqs, MaxSteps)

\* DEFAULTS as shipped, and with one of the named entries absent
Registries ==
    { [ k \in (DOMAIN DEFAULTS) \ gone |-> DEFAULTS[k] ]
      : gone \in { {}, { "phaseup" }, { "phaseupfb" }, { "delaycal" } } }

---------------------------------------------------------------------------
(* main() *)

Init ==
    /\ pc = "main"
    /\ config \in Configs
    /\ registry = DEFAULTS
    /\ group = << >>
    /\ sequence = 0
    /\ order = 0
    /\ created_sbs = << >>
    /\ db = << >>
    /\ pb = NoPb
    /\ assigned = 0
    /\ calls = << >>
    /\ error = ""
    /\ pending = << >>
    /\ returned = << >>
    /\ stream = 0
    /\ inp = 0
    /\ sources = None
    /\ observed = 0

Fail(exc) ==
    /\ pc' = "failed"
    /\ error' = exc

\* --file given: group = read_group_from_csv(config["file"])
MainReadCsv ==
    /\ pc = "main"
    /\ config.file # None
    /\ group' = read_group_from_csv(config.file[1])
    /\ pc' = "pb_new"
    /\ UNCHANGED << scriptVars, pending, returned, config, registry, sequence, order, created_sbs, db, pb,
                    assigned, calls, error >>

\* no --file: group = GROUPS[group_key]
MainSelectGroup ==
    /\ pc = "main"
    /\ config.file = None
    /\ config.groupkey \in DOMAIN GROUPS
    /\ group' = GROUPS[config.groupkey]
    /\ pc' = "pb_new"
    /\ UNCHANGED << scriptVars, pending, returned, config, registry, sequence, order, created_sbs, db, pb,
                    assigned, calls, error >>

\* mutant: an unknown key falls back to the default group
MainUnknownGroupKey_Fallback ==
    /\ pc = "main"
    /\ config.file = None
    /\ config.groupkey \notin DOMAIN GROUPS
    /\ group' = GROUPS["default"]
    /\ pc' = "pb_new"
    /\ UNCHANGED << scriptVars, pending, returned, config, registry, sequence, order, created_sbs, db, pb,
                    assigned, calls, error >>

\* GROUPS[group_key] raises KeyError
MainUnknownGroupKey ==
    /\ pc = "main"
    /\ config.file = None
    /\ config.groupkey \notin DOMAIN GROUPS
    /\ Fail("KeyError")
    /\ UNCHANGED << scriptVars, pending, returned, config, registry, group, sequence, order, created_sbs, db,
                    pb, assigned, calls >>

\* obs.pb.new(owner="sarah") with its description and start time, then the
\* call of populate_ptuse_sbs up to the head of its loops
PbNew ==
    /\ pc = "pb_new"
    /\ pb' = [ state |-> "DRAFT", owner |-> W("sarah"), sbs |-> << >> ]
    /\ calls' = Append(calls, Call("pb.new", 0))
    /\ sequence' = 0
    /\ order' = 0
    /\ created_sbs' = << >>
    /\ pc' = "populate"
    /\ UNCHANGED << scriptVars, pending, returned, config, registry, group, db, assigned, error >>

\* the scheduling service rejects the program block
PbNewRejected ==
    /\ pc = "pb_new"
    /\ calls' = Append(calls, Call("pb.new", 0))
    /\ Fail("SubmissionError")
    /\ UNCHANGED << scriptVars, pending, returned, config, registry, group, sequence, order, created_sbs, db,
                    pb, assigned >>

---------------------------------------------------------------------------
(* populate_ptuse_sbs *)

\* the inner loop is exhausted: the outer enumerate moves on
LoopNextSequence ==
    /\ pc = "populate"
    /\ sequence < Len(group)
    /\ order = Len(group[sequence + 1])
    /\ sequence' = sequence + 1
    /\ order' = 0
    /\ UNCHANGED << scriptVars, pending, returned, pc, config, registry, group, created_sbs, db, pb,
                    assigned, calls, error >>

\* DEFAULTS[...] raises KeyError: the entry for the step's kind is absent
KindError ==
    /\ pc = "populate"
    /\ InLoop
    /\ KindKey(sb_params.target) \notin DOMAIN registry
    /\ Fail("KeyError")
    /\ UNCHANGED << scriptVars, pending, returned, config, registry, group, sequence, order, created_sbs, db,
                    pb, assigned, calls >>

\* sb = obs.sb.new(...)
SbNew ==
    /\ pc = "populate"
    /\ InLoop
    /\ KindKey(sb_params.target) \in DOMAIN registry
    /\ db' = Append(db, NewSb(Len(db) + 1, sb_params, sb_defaults))
    /\ calls' = Append(calls, Call("sb.new", Len(db) + 1))
    /\ pc' = "sb_fill"
    /\ UNCHANGED << scriptVars, pending, returned, config, registry, group, sequence, order, created_sbs, pb,
                    assigned, error >>

\* the scheduling service rejects the schedule block
SbNewRejected ==
    /\ pc = "populate"
    /\ InLoop
    /\ KindKey(sb_params.target) \in DOMAIN registry
    /\ calls' = Append(calls, Call("sb.new", 0))
    /\ Fail("SubmissionError")
    /\ UNCHANGED << scriptVars, pending, returned, config, registry, group, sequence, order, created_sbs, db,
                    pb, assigned >>

\* mutant: the record's fields are merged into the registry in place
\* (sb_defaults.update(sb_params)) before they are read
SbFill_UpdatesDefaults ==
    /\ pc = "sb_fill"
    /\ db' = [ db EXCEPT ![Len(db)] =
                 FilledSb(db[Len(db)], sb_params, sb_defaults, sequence, order) ]
    /\ registry' = [ registry EXCEPT ![KindKey(sb_params.target)] =
                       [ k \in DOMAIN sb_defaults \cup DOMAIN sb_params |->
                           IF k \in DOMAIN sb_params THEN sb_params[k]
                                                     ELSE sb_defaults[k] ] ]
    /\ pc' = "sb_to_defined"
    /\ UNCHANGED << scriptVars, pending, returned, config, group, sequence, order, created_sbs, pb,
                    assigned, calls, error >>

\* mutant: sb_order counts the schedule blocks the service holds instead of
\* the step's index in its Sequence
SbFill_OrderFromDb ==
    /\ pc = "sb_fill"
    /\ db' = [ db EXCEPT ![Len(db)] =
                 FilledSb(db[Len(db)], sb_params, sb_defaults, sequence,
                          Len(db) - 1) ]
    /\ pc' = "sb_to_defined"
    /\ UNCHANGED << scriptVars, pending, returned, config, registry, group, sequence, order, created_sbs, pb,
                    assigned, calls, error >>

\* obs.sb.type ... obs.sb.sb_order = order
SbFill ==
    /\ pc = "sb_fill"
    /\ db' = [ db EXCEPT ![Len(db)] =
                 FilledSb(db[Len(db)], sb_params, sb_defaults, sequence, order) ]
    /\ pc' = "sb_to_defined"
    /\ UNCHANGED << scriptVars, pending, returned, config, registry, group, sequence, order, created_sbs, pb,
                    assigned, calls, error >>

\* obs.sb.to_defined()
SbToDefined ==
    /\ pc = "sb_to_defined"
    /\ db' = [ db EXCEPT ![Len(db)].state = "DEFINED" ]
    /\ calls' = Append(calls, Call("sb.to_defined", db[Len(db)].id))
    /\ pc' = "sb_to_approved"
    /\ UNCHANGED << scriptVars, pending, returned, config, registry, group, sequence, order, created_sbs, pb,
                    assigned, error >>

\* obs.sb.to_approved(); created_sbs.append(sb); the inner enumerate moves on
SbToApproved ==
    /\ pc = "sb_to_approved"
    /\ db' = [ db EXCEPT ![Len(db)].state = "APPROVED" ]
    /\ calls' = Append(calls, Call("sb.to_approved", db[Len(db)].id))
    /\ created_sbs' = Append(created_sbs, db[Len(db)].id)
    /\ order' = order + 1
    /\ pc' = "populate"
    /\ UNCHANGED << scriptVars, pending, returned, config, registry, group, sequence, pb, assigned, error >>

\* return created_sbs
PopulateReturn ==
    /\ pc = "populate"
    /\ sequence = Len(group)
    /\ pc' = "returned"
    /\ assigned' = 0
    /\ returned' = Append(returned, [ group |-> group, sbs |-> created_sbs ])
    /\ UNCHANGED << scriptVars, pending, config, registry, group, sequence, order, created_sbs, db,
                    pb, calls, error >>

---------------------------------------------------------------------------
(* main(), after populate_ptuse_sbs *)

\* mutant: the handles are assigned last to first
AssignSb_Reversed ==
    /\ pc = "returned"
    /\ assigned < Len(created_sbs)
    /\ pb' = [ pb EXCEPT !.sbs =
                 Append(@, created_sbs[Len(created_sbs) - assigned]) ]
    /\ calls' = Append(calls, Call("pb.assign_sb",
                                   created_sbs[Len(created_sbs) - assigned]))
    /\ assigned' = assigned + 1
    /\ UNCHANGED << scriptVars, pending, returned, pc, config, registry, group, sequence, order, created_sbs,
                    db, error >>

\* for sb in created_sbs: obs.pb.assign_sb(sb)
AssignSb ==
    /\ pc = "returned"
    /\ assigned < Len(created_sbs)
    /\ pb' = [ pb EXCEPT !.sbs = Append(@, created_sbs[assigned + 1]) ]
    /\ calls' = Append(calls, Call("pb.assign_sb", created_sbs[assigned + 1]))
    /\ assigned' = assigned + 1
    /\ UNCHANGED << scriptVars, pending, returned, pc, config, registry, group, sequence, order, created_sbs,
                    db, error >>

\* mutant: the program block is defined before the handles are assigned
PbToDefined_BeforeAssign ==
    /\ pc = "returned"
    /\ assigned = 0
    /\ pb' = [ pb EXCEPT !.state = "DEFINED" ]
    /\ calls' = Append(calls, Call("pb.to_defined", 0))
    /\ pc' = "pb_to_approved"
    /\ UNCHANGED << scriptVars, pending, returned, config, registry, group, sequence, order, created_sbs, db,
                    assigned, error >>

\* obs.pb.to_defined()
PbToDefined ==
    /\ pc = "returned"
    /\ assigned = Len(created_sbs)
    /\ pb' = [ pb EXCEPT !.state = "DEFINED" ]
    /\ calls' = Append(calls, Call("pb.to_defined", 0))
    /\ pc' = "pb_to_approved"
    /\ UNCHANGED << scriptVars, pending, returned, config, registry, group, sequence, order, created_sbs, db,
                    assigned, error >>

\* obs.pb.to_approved()
PbToApproved ==
    /\ pc = "pb_to_approved"
    /\ pb' = [ pb EXCEPT !.state = "APPROVED" ]
    /\ calls' = Append(calls, Call("pb.to_approved", 0))
    /\ pc' = "done"
    /\ UNCHANGED << scriptVars, pending, returned, config, registry, group, sequence, order, created_sbs, db,
                    assigned, error >>

Next ==
    \/ MainReadCsv
    \/ MainSelectGroup
    \/ MainUnknownGroupKey
    \/ PbNew
    \/ PbNewRejected
    \/ LoopNextSequence
    \/ SbNew
    \/ SbNewRejected
    \/ SbFill
    \/ SbToDefined
    \/ SbToApproved
    \/ PopulateReturn
    \/ AssignSb
    \/ PbToDefined
    \/ PbToApproved

Spec == Init /\ [][Next]_vars

---------------------------------------------------------------------------
(* populate_ptuse_sbs called on its own, with any group and registry *)

InitCompose ==
    /\ pc = "populate"
    /\ config = [ file |-> None, groupkey |-> "" ]
    /\ registry \in Registries
    /\ group \in ComposeGroups
    /\ sequence = 0
    /\ order = 0
    /\ created_sbs = << >>
    /\ db = << >>
    /\ pb = NoPb
    /\ assigned = 0
    /\ calls = << >>
    /\ error = ""
    /\ pending = << >>
    /\ returned = << >>
    /\ stream = 0
    /\ inp = 0
    /\ sources = None
    /\ observed = 0

NextCompose ==
    \/ LoopNextSequence
    \/ KindError
    \/ SbNew
    \/ SbNewRejected
    \/ SbFill
    \/ SbToDefined
    \/ SbToApproved
    \/ PopulateReturn

SpecCompose == InitCompose /\ [][NextCompose]_vars

---------------------------------------------------------------------------
(* populate_ptuse_sbs called three times in one process: on a group, on
   another group, and on the first group again *)

\* the groups composed between the two compositions of the same group
BetweenGroups ==
    { << >>,
      sb_groups_test,
      << << Step("delaycal") >>, << StepT("J0437-4715", "300") >> >> }

InitAgain ==
    /\ pc = "populate"
    /\ config = [ file |-> None, groupkey |-> "" ]
    /\ registry = DEFAULTS
    /\ group \in ComposeGroups
    /\ \E between \in BetweenGroups : pending = << between, group >>
    /\ sequence = 0
    /\ order = 0
    /\ created_sbs = << >>
    /\ db = << >>
    /\ pb = NoPb
    /\ assigned = 0
    /\ calls = << >>
    /\ error = ""
    /\ returned = << >>
    /\ stream = 0
    /\ inp = 0
    /\ sources = None
    /\ observed = 0

\* the caller calls populate_ptuse_sbs(obs, sb_groups) again:
\* created_sbs = [] and both enumerates start over
ComposeAgain ==
    /\ pc = "returned"
    /\ pending # << >>
    /\ group' = Head(pending)
    /\ pending' = Tail(pending)
    /\ sequence' = 0
    /\ order' = 0
    /\ created_sbs' = << >>
    /\ pc' = "populate"
    /\ UNCHANGED << scriptVars, returned, config, registry, db, pb, assigned, calls, error >>

\* every kind key is in DEFAULTS, so no step raises KeyError
NextAgain ==
    \/ LoopNextSequence
    \/ SbNew
    \/ SbNewRejected
    \/ SbFill
    \/ SbToDefined
    \/ SbToApproved
    \/ PopulateReturn
    \/ ComposeAgain

SpecAgain == InitAgain /\ [][NextAgain]_vars

---------------------------------------------------------------------------
(* make_ptuse.py: one schedule block for beamform_single_pulsar.py.  The   *)
(* texts built with % are sequences of fragments: the fixed parts of the   *)
(* format string and the values put in their places.                       *)

Digit(d) == << "0", "1", "2", "3", "4", "5", "6", "7", "8", "9" >>[d + 1]

RECURSIVE Decimal(_)
\* "%d" % n, for n >= 0
Decimal(n) ==
    IF n < 10 THEN << Digit(n) >>
    ELSE Decimal(n \div 10) \o << Digit(n % 10) >>

\* the options parse_args returns: --user and --target default to None
MakeOptions ==
    [ user : { None, Some(W("sarah")) },
      target : { None, Some(W("J0437-4715")), Some(<< "PKS", SP, "1934-638" >>) },
      issue : { W("MKAIV-388"), W("MKAIV-387") },
      description : { W("MKAIV-388") },
      duration : { 60, 600 },
      antennas : { W("available"), W("m011,m012") } ]

\* instruction_set = "run-obs-script ... -t %d '%s' --horizon 20" % (...)
MakeInstructionSet(options) ==
    << "run-obs-script", SP,
       "/home/kat/katusescripts/ptuse/beamform_single_pulsar.py", SP, SP,
       "--proposal-id='FST-TRNS'", SP, "--program-block-id='" >>
    \o options.issue \o << "'", SP, "--issue-id='" >>
    \o options.issue \o << "'", SP, "-B", SP, "856", SP, "-F", SP, "1284",
                           SP, "-t", SP >>
    \o Decimal(options.duration) \o << SP, "'" >>
    \o options.target[1] \o << "'", SP, "--horizon", SP, "20" >>

\* the schedule block as obs.sb.new(owner=options.user) leaves it
MakeNewSb(id, options) ==
    [ id |-> id,
      owner |-> options.user[1],
      type |-> "",
      description |-> EmptyStr,
      instruction_set |-> EmptyStr,
      antenna_spec |-> EmptyStr,
      controlled_resources_spec |-> EmptyStr,
      state |-> "DRAFT",
      loaded |-> TRUE ]

InitMake ==
    /\ pc = "make_options"
    /\ config \in MakeOptions
    /\ registry = DEFAULTS
    /\ group = << >>
    /\ sequence = 0
    /\ order = 0
    /\ created_sbs = << >>
    /\ db = << >>
    /\ pb = NoPb
    /\ assigned = 0
    /\ calls = << >>
    /\ error = ""
    /\ pending = << >>
    /\ returned = << >>
    /\ stream = 0
    /\ inp = 0
    /\ sources = None
    /\ observed = 0

\* if options.user is None: raise SystemExit(parser.print_usage())
MakeNoUser ==
    /\ pc = "make_options"
    /\ config.user = None
    /\ Fail("SystemExit")
    /\ UNCHANGED << scriptVars, composerVars, config, db, calls >>

\* if options.target is None: raise SystemExit(parser.print_usage())
MakeNoTarget ==
    /\ pc = "make_options"
    /\ config.user # None
    /\ config.target = None
    /\ Fail("SystemExit")
    /\ UNCHANGED << scriptVars, composerVars, config, db, calls >>

\* main(options, args) up to obs.status(): obsbuild connects to the
\* observation database
MakeObsbuild ==
    /\ pc = "make_options"
    /\ config.user # None
    /\ config.target # None
    /\ calls' = calls \o << Call("obsbuild", 0), Call("obs.status", 0) >>
    /\ pc' = "make_sb_new"
    /\ UNCHANGED << scriptVars, composerVars, config, db, error >>

\* sb_id_code = obs.sb.new(owner=options.user)
MakeSbNew ==
    /\ pc = "make_sb_new"
    /\ db' = Append(db, MakeNewSb(Len(db) + 1, config))
    /\ calls' = Append(calls, Call("sb.new", Len(db) + 1))
    /\ pc' = "make_sb_fill"
    /\ UNCHANGED << scriptVars, composerVars, config, error >>

\* the scheduling service rejects the schedule block
MakeSbNewRejected ==
    /\ pc = "make_sb_new"
    /\ calls' = Append(calls, Call("sb.new", 0))
    /\ Fail("SubmissionError")
    /\ UNCHANGED << scriptVars, composerVars, config, db >>

\* mutant: the controlled resources are not set
MakeSbFill_NoResources ==
    /\ pc = "make_sb_fill"
    /\ db' = [ db EXCEPT ![Len(db)] =
                 [ @ EXCEPT !.description = config.description,
                            !.type = "OBSERVATION",
                            !.instruction_set = MakeInstructionSet(config),
                            !.antenna_spec = config.antennas ] ]
    /\ pc' = "make_to_defined"
    /\ UNCHANGED << scriptVars, composerVars, config, calls, error >>

\* obs.sb.description ... obs.sb.controlled_resources_spec
MakeSbFill ==
    /\ pc = "make_sb_fill"
    /\ db' = [ db EXCEPT ![Len(db)] =
                 [ @ EXCEPT !.description = config.description,
                            !.type = "OBSERVATION",
                            !.instruction_set = MakeInstructionSet(config),
                            !.antenna_spec = config.antennas,
                            !.controlled_resources_spec = W("cbf,sdp,ptuse_1") ] ]
    /\ pc' = "make_to_defined"
    /\ UNCHANGED << scriptVars, composerVars, config, calls, error >>

\* obs.sb.to_defined()
MakeSbToDefined ==
    /\ pc = "make_to_defined"
    /\ db' = [ db EXCEPT ![Len(db)].state = "DEFINED" ]
    /\ calls' = Append(calls, Call("sb.to_defined", db[Len(db)].id))
    /\ pc' = "make_to_approved"
    /\ UNCHANGED << scriptVars, composerVars, config, error >>

\* obs.sb.to_approved()
MakeSbToApproved ==
    /\ pc = "make_to_approved"
    /\ db' = [ db EXCEPT ![Len(db)].state = "APPROVED" ]
    /\ calls' = Append(calls, Call("sb.to_approved", db[Len(db)].id))
    /\ pc' = "make_unload"
    /\ UNCHANGED << scriptVars, composerVars, config, error >>

\* obs.sb.unload()
MakeSbUnload ==
    /\ pc = "make_unload"
    /\ db' = [ db EXCEPT ![Len(db)].loaded = FALSE ]
    /\ calls' = Append(calls, Call("sb.unload", db[Len(db)].id))
    /\ pc' = "done"
    /\ UNCHANGED << scriptVars, composerVars, config, error >>

NextMake ==
    \/ MakeNoUser
    \/ MakeNoTarget
    \/ MakeObsbuild
    \/ MakeSbNew
    \/ MakeSbNewRejected
    \/ MakeSbFill
    \/ MakeSbToDefined
    \/ MakeSbToApproved
    \/ MakeSbUnload

SpecMake == InitMake /\ [][NextMake]_vars

---------------------------------------------------------------------------
(* The observation scripts beamform_single_pulsar.py, beamform_fluxcal.py  *)
(* and beamform_flux_1.py.  config.script names the script that runs; the  *)
(* statements the scripts share are modelled once.  calls lists the        *)
(* requests the script sends to the telescope, the session, the PTUSE      *)
(* proxy and the logger, with the reply where the script reads it.         *)

SinglePulsar == "beamform_single_pulsar"
Fluxcal == "beamform_fluxcal"
Flux1 == "beamform_flux_1"

\* a request: the object asked, the request, its arguments, reply.succeeded
Req(on, op, args, ok) == [ on |-> on, op |-> op, args |-> args, ok |-> ok ]

\* the subarray the scripts connect to
KatAnts == << "m011", "m012" >>
Beamformers == << "beam_0x", "beam_0y" >>
StreamInputs(s) ==
    IF s = "beam_0x"
    THEN << [ ant |-> "m011", pol |-> "h" ], [ ant |-> "m012", pol |-> "h" ] >>
    ELSE << [ ant |-> "m011", pol |-> "v" ], [ ant |-> "m012", pol |-> "v" ] >>

\* the first positional argument of the script
MainTarget == "J0437-4715"

\* the values of --noise-source: None or '<cycle_length_sec>,<on_fraction>'
NoiseSources ==
    { None, Some([ cycle_length |-> "0", on_fraction |-> "0.5" ]),
      Some([ cycle_length |-> "10", on_fraction |-> "0.5" ]) }

\* float(text), for the cycle lengths above
ParseFloat(text) == IF text = "10" THEN 10 ELSE 0

\* the values of --noise-cycle; m099 is no antenna of the subarray
NoiseCycles == { None, Some("all"), Some("cycle"), Some("m011"), Some("m099") }

\* the options the noise-source set-up reads; --noise-cycle is read only
\* when --noise-source is given
NoiseOptions ==
    { [ noise_source |-> ns, noise_cycle |-> nc ] :
          ns \in NoiseSources \ { None }, nc \in NoiseCycles }
    \cup { [ noise_source |-> None, noise_cycle |-> None ] }

\* opts and args of beamform_single_pulsar.py
SinglePulsarOptions ==
    { [ script |-> SinglePulsar, nargs |-> n, dry_run |-> d, ants |-> a,
        drift_scan |-> ds, nd_period |-> p, noise_source |-> None,
        noise_cycle |-> None, cal |-> "" ] :
          n \in { 0, 1 }, d \in BOOLEAN, ds \in BOOLEAN, p \in { -1, 10 },
          a \in { None, Some(<< "m011" >>) } }

\* opts and args of beamform_fluxcal.py
FluxcalOptions ==
    { [ script |-> Fluxcal, nargs |-> n, dry_run |-> d, ants |-> a,
        drift_scan |-> ds, nd_period |-> -1, noise_source |-> no.noise_source,
        noise_cycle |-> no.noise_cycle, cal |-> c ] :
          n \in { 0, 1 }, d \in BOOLEAN, ds \in BOOLEAN, no \in NoiseOptions,
          c \in { "poln", "flux", "fluxN", "fluxS" },
          a \in { None, Some(<< "m011" >>) } }

\* opts and args of beamform_flux_1.py
Flux1Options ==
    { [ script |-> Flux1, nargs |-> n, dry_run |-> d, ants |-> a,
        drift_scan |-> FALSE, nd_period |-> -1, noise_source |-> no.noise_source,
        noise_cycle |-> no.noise_cycle, cal |-> c ] :
          n \in { 0, 1 }, d \in BOOLEAN, no \in NoiseOptions,
          c \in { "poln", "flux", "fluxN" },
          a \in { None, Some(<< "m011" >>) } }

\* bf_ants = opts.ants.split(',') if opts.ants else [ant.name for ant in kat.ants]
bf_ants == IF config.ants # None THEN config.ants[1] ELSE KatAnts

Has(list, x) == \E i \in 1..Len(list) : list[i] = x

\* weight = 1.0 / np.sqrt(len(bf_ants)) if inp[:-1] in bf_ants else 0.0
Weight(input) ==
    IF Has(bf_ants, input.ant)
    THEN (IF Len(bf_ants) = 1 THEN "1.0" ELSE "0.7071")
    ELSE "0.0"

SessionEnd == Req("session", "end", << >>, TRUE)

InitObserve ==
    /\ pc = "obs_options"
    /\ config \in SinglePulsarOptions \cup FluxcalOptions \cup Flux1Options
    /\ registry = DEFAULTS
    /\ group = << >>
    /\ sequence = 0
    /\ order = 0
    /\ created_sbs = << >>
    /\ db = << >>
    /\ pb = NoPb
    /\ assigned = 0
    /\ calls = << >>
    /\ error = ""
    /\ pending = << >>
    /\ returned = << >>
    /\ stream = 0
    /\ inp = 0
    /\ sources = None
    /\ observed = 0

obsIdle == << composerVars, db, config >>

\* if opts.dry_run: sys.exit(0)
ObsDryRunExit ==
    /\ pc = "obs_options"
    /\ config.script \in { SinglePulsar, Flux1 }
    /\ config.dry_run
    /\ pc' = "done"
    /\ UNCHANGED << obsIdle, scriptVars, calls, error >>

\* if len(args) == 0: raise ValueError("Please specify the target")
ObsNoTarget ==
    /\ pc = "obs_options"
    /\ config.script = Fluxcal \/ ~ config.dry_run
    /\ config.nargs = 0
    /\ Fail("ValueError")
    /\ UNCHANGED << obsIdle, scriptVars, calls >>

\* with verify_and_connect(opts) as kat: ... cbf = SessionCBF(kat)
ObsConnect ==
    /\ pc = "obs_options"
    /\ config.script \in { SinglePulsar, Flux1 }
    /\ ~ config.dry_run
    /\ config.nargs > 0
    /\ calls' = Append(calls, Req("kat", "verify_and_connect", << >>, TRUE))
    /\ pc' = "obs_passband"
    /\ UNCHANGED << obsIdle, scriptVars, error >>

\* beamform_fluxcal.py: verify_and_connect, then the check for PTUSE
\* proxies among kat.children
FluxcalConnect ==
    /\ pc = "obs_options"
    /\ config.script = Fluxcal
    /\ config.nargs > 0
    /\ \E ptuses \in { << >>, << "ptuse_1" >>, << "ptuse_1", "ptuse_2" >> } :
          LET connect == Req("kat", "verify_and_connect", ptuses, TRUE)
          IN  IF Len(ptuses) = 0
              THEN /\ calls' = Append(calls, connect)
                   /\ Fail("ValueError")
              ELSE /\ calls' = calls \o << connect >> \o
                         (IF Len(ptuses) > 1
                          THEN << Req("user_logger", "warning", ptuses, TRUE) >>
                          ELSE << >>)
                   /\ pc' = "obs_passband"
                   /\ error' = error
    /\ UNCHANGED << obsIdle, scriptVars >>

\* mutant: a refused passband is only logged and the set-up goes on
ObsPassband_WarnOnly ==
    /\ pc = "obs_passband"
    /\ stream < Len(Beamformers)
    /\ \E ok \in BOOLEAN :
          /\ calls' = calls \o
                 << Req(Beamformers[stream + 1], "passband",
                        << "beam_bandwidth", "beam_centre_freq" >>, ok) >>
                 \o (IF ok THEN << >>
                     ELSE << Req("user_logger", "warning",
                                 << Beamformers[stream + 1] >>, TRUE) >>)
          /\ pc' = "obs_weights"
          /\ error' = error
    /\ UNCHANGED << obsIdle, scriptVars >>

\* for stream in cbf.beamformers: reply = stream.req.passband(...); raise
\* ValueError unless reply.succeeded
ObsPassband ==
    /\ pc = "obs_passband"
    /\ stream < Len(Beamformers)
    /\ \E ok \in BOOLEAN :
          /\ calls' = Append(calls,
                 Req(Beamformers[stream + 1], "passband",
                     << "beam_bandwidth", "beam_centre_freq" >>, ok))
          /\ IF ok THEN pc' = "obs_weights" /\ error' = error
                   ELSE Fail("ValueError")
    /\ UNCHANGED << obsIdle, scriptVars >>

\* for inp in stream.inputs: reply = stream.req.weights(inp, weight); a
\* warning is logged unless reply.succeeded
ObsWeights ==
    /\ pc = "obs_weights"
    /\ inp < Len(StreamInputs(Beamformers[stream + 1]))
    /\ LET input == StreamInputs(Beamformers[stream + 1])[inp + 1]
       IN  \E ok \in BOOLEAN :
             calls' = calls \o
                 << Req(Beamformers[stream + 1], "weights",
                        << input.ant, input.pol, Weight(input) >>, ok) >>
                 \o (IF ok THEN << >>
                     ELSE << Req("user_logger", "warning",
                                 << input.ant, input.pol >>, TRUE) >>)
    /\ inp' = inp + 1
    /\ UNCHANGED << obsIdle, pc, stream, sources, observed, error >>

\* the inputs of the stream are exhausted: the loop over the streams moves on
ObsNextStream ==
    /\ pc = "obs_weights"
    /\ inp = Len(StreamInputs(Beamformers[stream + 1]))
    /\ stream' = stream + 1
    /\ inp' = 0
    /\ pc' = "obs_passband"
    /\ UNCHANGED << obsIdle, sources, observed, calls, error >>

StreamsDone == pc = "obs_passband" /\ stream = Len(Beamformers)

\* target = collect_targets(kat, args[:1]).targets[0] and the elevation
\* read by target.azel()
LookUp(up) ==
    << Req("kat", "collect_targets", << MainTarget >>, TRUE),
       Req("target", "azel", << MainTarget, IF up THEN "up" ELSE "below" >>,
           TRUE) >>

\* beamform_single_pulsar.py and beamform_flux_1.py: the target is looked
\* up and ValueError is raised if it is below opts.horizon
ObsHorizon ==
    /\ StreamsDone
    /\ config.script \in { SinglePulsar, Flux1 }
    /\ \E up \in BOOLEAN :
          /\ calls' = calls \o LookUp(up)
          /\ IF up THEN pc' = "obs_telstate" /\ error' = error
                   ELSE Fail("ValueError")
    /\ UNCHANGED << obsIdle, scriptVars >>

\* telstate.add('obs_script_arguments', script_args); --backend is left at
\* its default, so no backend arguments are verified
ObsTelstate ==
    /\ IF config.script = Fluxcal THEN StreamsDone ELSE pc = "obs_telstate"
    /\ calls' = Append(calls,
           Req("telstate", "add", << "obs_script_arguments" >>, TRUE))
    /\ pc' = "obs_session"
    /\ UNCHANGED << obsIdle, scriptVars, error >>

\* with start_session(kat, **vars(opts)) as session:
ObsStartSession ==
    /\ pc = "obs_session"
    /\ calls' = Append(calls, Req("kat", "start_session", << >>, TRUE))
    /\ pc' = "obs_in_session"
    /\ UNCHANGED << obsIdle, scriptVars, error >>

\* beamform_single_pulsar.py: the calibration frequency is announced if the
\* noise diode period of nd_params is positive, then standard_setup
SinglePulsarSetup ==
    /\ pc = "obs_in_session"
    /\ config.script = SinglePulsar
    /\ calls' = calls \o
           (IF config.nd_period > 0
            THEN << Req("ptuse_1", "ptuse_cal_freq", << "1", "0.1" >>, TRUE) >>
            ELSE << >>)
           \o << Req("session", "standard_setup", << >>, TRUE) >>
    /\ pc' = "obs_track_onto"
    /\ UNCHANGED << obsIdle, scriptVars, error >>

\* mutant: a target below the horizon is only logged, dry run or not
FluxcalHorizon_WarnOnly ==
    /\ pc = "obs_in_session"
    /\ config.script = Fluxcal
    /\ \E up \in BOOLEAN :
          /\ calls' = calls \o LookUp(up) \o
                 (IF up THEN << >>
                  ELSE << Req("user_logger", "warn", << MainTarget >>, TRUE) >>)
          /\ pc' = "obs_setup"
          /\ error' = error
    /\ UNCHANGED << obsIdle, scriptVars >>

\* beamform_fluxcal.py: the target is looked up inside the session; below
\* the horizon the script raises, but a dry run only logs a warning
FluxcalHorizon ==
    /\ pc = "obs_in_session"
    /\ config.script = Fluxcal
    /\ \E up \in BOOLEAN :
          IF up
          THEN /\ calls' = calls \o LookUp(up)
               /\ pc' = "obs_setup"
               /\ error' = error
          ELSE IF ~ config.dry_run
          THEN /\ calls' = calls \o LookUp(up) \o << SessionEnd >>
               /\ Fail("ValueError")
          ELSE /\ calls' = calls \o LookUp(up) \o
                      << Req("user_logger", "warn", << MainTarget >>, TRUE) >>
               /\ pc' = "obs_setup"
               /\ error' = error
    /\ UNCHANGED << obsIdle, scriptVars >>

\* opts.no_delays = False; session.standard_setup(**vars(opts))
ObsStandardSetup ==
    /\ \/ pc = "obs_setup" /\ config.script = Fluxcal
       \/ pc = "obs_in_session" /\ config.script = Flux1
    /\ calls' = Append(calls, Req("session", "standard_setup", << >>, TRUE))
    /\ pc' = "obs_noise"
    /\ UNCHANGED << obsIdle, scriptVars, error >>

\* if opts.noise_source is not None: is false
ObsNoNoiseSource ==
    /\ pc = "obs_noise"
    /\ config.noise_source = None
    /\ pc' = "obs_cal"
    /\ UNCHANGED << obsIdle, scriptVars, calls, error >>

\* the dig_noise_source requests that start the pattern
StartPattern(on, timestamp) ==
    Req(on, "dig_noise_source",
        << timestamp, config.noise_source[1].on_fraction,
           config.noise_source[1].cycle_length >>, TRUE)

\* the noise-source pattern is set on all antennas, on one antenna or on
\* the antennas of bf_ants in turn; any other --noise-cycle raises
ObsNoiseSource ==
    /\ pc = "obs_noise"
    /\ config.noise_source # None
    /\ IF config.noise_cycle = None \/ config.noise_cycle = Some("all")
       THEN /\ calls' = Append(calls, StartPattern("ants", "timestamp"))
            /\ pc' = "obs_cal_freq"
            /\ error' = error
       ELSE IF Has(bf_ants, config.noise_cycle[1])
       THEN /\ calls' = Append(calls, StartPattern(config.noise_cycle[1], "now"))
            /\ pc' = "obs_cal_freq"
            /\ error' = error
       ELSE IF config.noise_cycle = Some("cycle")
       THEN /\ calls' = calls \o
                   [ i \in 1..Len(bf_ants) |->
                       StartPattern(bf_ants[i], "timestamp") ]
            /\ pc' = "obs_cal_freq"
            /\ error' = error
       ELSE /\ calls' = Append(calls, SessionEnd)
            /\ Fail("ValueError")
    /\ UNCHANGED << obsIdle, scriptVars >>

\* if float(cycle_length) > 0: is false
ObsNoCalFreq ==
    /\ pc = "obs_cal_freq"
    /\ ParseFloat(config.noise_source[1].cycle_length) <= 0
    /\ pc' = "obs_cal"
    /\ UNCHANGED << obsIdle, scriptVars, calls, error >>

\* beamform_flux_1.py: kat.ptuse_1.req.ptuse_cal_freq(data_product_id,
\* beam_id, freq)
Flux1CalFreq ==
    /\ pc = "obs_cal_freq"
    /\ config.script = Flux1
    /\ ParseFloat(config.noise_source[1].cycle_length) > 0
    /\ calls' = Append(calls,
           Req("ptuse_1", "ptuse_cal_freq", << "1", "0.1" >>, TRUE))
    /\ pc' = "obs_cal"
    /\ UNCHANGED << obsIdle, scriptVars, error >>

\* beamform_fluxcal.py: the print before the request reads beam_id, a name
\* the script never binds: NameError, and the session is left
FluxcalCalFreq ==
    /\ pc = "obs_cal_freq"
    /\ config.script = Fluxcal
    /\ ParseFloat(config.noise_source[1].cycle_length) > 0
    /\ calls' = Append(calls, SessionEnd)
    /\ Fail("NameError")
    /\ UNCHANGED << obsIdle, scriptVars >>

\* target.name.replace(" ","") + '_O', + '_N', + '_S'
TargetO == "J0437-4715_O"
TargetN == "J0437-4715_N"
TargetS == "J0437-4715_S"

\* the if opts.cal == ... blocks: each of them binds sources to a catalogue
\* of one target; for 'poln' none of them runs
ObsCal ==
    /\ pc = "obs_cal"
    /\ sources' =
          IF config.cal = "flux" THEN Some(<< TargetO >>)
          ELSE IF config.cal = "fluxN" THEN Some(<< TargetN >>)
          ELSE IF config.cal = "fluxS" /\ config.script = Fluxcal
               THEN Some(<< TargetS >>)
          ELSE sources
    /\ pc' = IF config.script = Flux1 THEN "obs_loop" ELSE "obs_track_onto"
    /\ UNCHANGED << obsIdle, stream, inp, observed, calls, error >>

\* the name of the main target: opts.cal == 'flux' renames it
TargetName ==
    IF config.script = Fluxcal /\ config.cal = "flux" THEN TargetO
    ELSE MainTarget

Track(name, duration) == Req("session", "track", << name, duration >>, TRUE)

\* mutant: the drift scan does not track to the transit point
ObsTrackOnto_NoTransit ==
    /\ pc = "obs_track_onto"
    /\ calls' = calls \o << Track(TargetName, "5") >>
    /\ pc' = "obs_capture"
    /\ UNCHANGED << obsIdle, scriptVars, error >>

\* session.track(target, duration=5), and for a drift scan the track to
\* the transit point, which becomes the target
ObsTrackOnto ==
    /\ pc = "obs_track_onto"
    /\ calls' = calls \o << Track(TargetName, "5") >> \o
           (IF config.drift_scan THEN << Track("transit", "0") >> ELSE << >>)
    /\ pc' = "obs_capture"
    /\ UNCHANGED << obsIdle, scriptVars, error >>

\* beamform_flux_1.py: for target in sources raises NameError, sources
\* being unbound; the session is left
Flux1SourcesUnbound ==
    /\ pc = "obs_loop"
    /\ sources = None
    /\ calls' = Append(calls, SessionEnd)
    /\ Fail("NameError")
    /\ UNCHANGED << obsIdle, scriptVars >>

\* beamform_flux_1.py: for target in sources: session.track(target, duration=5)
Flux1TrackOnto ==
    /\ pc = "obs_loop"
    /\ sources # None
    /\ observed < Len(sources[1])
    /\ calls' = Append(calls, Track(sources[1][observed + 1], "5"))
    /\ pc' = "obs_capture"
    /\ UNCHANGED << obsIdle, scriptVars, error >>

\* beamform_flux_1.py: the catalogue is exhausted
Flux1LoopDone ==
    /\ pc = "obs_loop"
    /\ sources # None
    /\ observed = Len(sources[1])
    /\ pc' = "obs_finish"
    /\ UNCHANGED << obsIdle, scriptVars, calls, error >>

\* the target the telescope is on
Tracked ==
    IF config.script = Flux1 THEN sources[1][observed + 1]
    ELSE IF config.drift_scan THEN "transit"
    ELSE TargetName

\* session.capture_start()
ObsCaptureStart ==
    /\ pc = "obs_capture"
    /\ calls' = Append(calls, Req("session", "capture_start", << >>, TRUE))
    /\ pc' = "obs_target_start"
    /\ UNCHANGED << obsIdle, scriptVars, error >>

\* the request ptuse_target_start for target.name
ObsTargetStart ==
    /\ pc = "obs_target_start"
    /\ calls' = Append(calls,
           Req("ptuse_1", "ptuse_target_start", << Tracked >>, TRUE))
    /\ pc' = "obs_track"
    /\ UNCHANGED << obsIdle, scriptVars, error >>

\* session.label('track'); session.track(target, duration=opts.target_duration)
ObsTrack ==
    /\ pc = "obs_track"
    /\ calls' = calls \o
           << Req("session", "label", << "track" >>, TRUE),
              Track(Tracked, "target_duration") >>
    /\ pc' = "obs_target_stop"
    /\ UNCHANGED << obsIdle, scriptVars, error >>

\* the request ptuse_target_stop; in beamform_flux_1.py the loop over the
\* catalogue moves on
ObsTargetStop ==
    /\ pc = "obs_target_stop"
    /\ calls' = Append(calls, Req("ptuse_1", "ptuse_target_stop", << >>, TRUE))
    /\ IF config.script = Flux1
       THEN observed' = observed + 1 /\ pc' = "obs_loop"
       ELSE observed' = observed /\ pc' = "obs_finish"
    /\ UNCHANGED << obsIdle, stream, inp, sources, error >>

NoiseOff == Req("ants", "dig_noise_source", << "now", "0" >>, TRUE)

\* if opts.noise_source is not None: kat.ants.req.dig_noise_source('now', 0),
\* and the end of the with blocks
ObsFinish ==
    /\ pc = "obs_finish"
    /\ calls' = calls \o
           (IF config.noise_source # None THEN << NoiseOff >> ELSE << >>)
           \o << SessionEnd >>
    /\ pc' = "done"
    /\ UNCHANGED << obsIdle, scriptVars, error >>

NextObserve ==
    \/ ObsDryRunExit
    \/ ObsNoTarget
    \/ ObsConnect
    \/ FluxcalConnect
    \/ ObsPassband
    \/ ObsWeights
    \/ ObsNextStream
    \/ ObsHorizon
    \/ ObsTelstate
    \/ ObsStartSession
    \/ SinglePulsarSetup
    \/ FluxcalHorizon
    \/ ObsStandardSetup
    \/ ObsNoNoiseSource
    \/ ObsNoiseSource
    \/ ObsNoCalFreq
    \/ Flux1CalFreq
    \/ FluxcalCalFreq
    \/ ObsCal
    \/ ObsTrackOnto
    \/ Flux1SourcesUnbound
    \/ Flux1TrackOnto
    \/ Flux1LoopDone
    \/ ObsCaptureStart
    \/ ObsTargetStart
    \/ ObsTrack
    \/ ObsTargetStop
    \/ ObsFinish

SpecObserve == InitObserve /\ [][NextObserve]_vars

---------------------------------------------------------------------------
(* Vocabulary of the properties *)

IsBoundary(t) == t = W("phaseup") \/ t = W("phaseupfb")

RECURSIVE Flat(_)
\* the steps of a list of Sequences, one after the other
Flat(g) == IF Len(g) = 0 THEN << >> ELSE Head(g) \o Flat(Tail(g))

IsFilled(sb) == sb.sb_sequence # None

\* the jobs emitted so far: their sequence and order are set
Emitted == SelectSeq(db, IsFilled)

SeqOf(sb) == sb.sb_sequence[1]
OrdOf(sb) == sb.sb_order[1]

\* the run took its group from a csv file and has read it
CsvRead == config.file # None /\ pc # "main"

\* the rows the csv reader iterates over
Rows == DictReader(config.file[1])

\* the run took its group from GROUPS[key] and has selected it
Selected(key) ==
    config.file = None /\ config.groupkey = key /\ pc \notin { "main", "failed" }

\* sequence_index starts at 0 and steps by exactly 1, order_index counts
\* from 0 inside each Sequence
StepsByOne(e) ==
    /\ Len(e) > 0 => SeqOf(e[1]) = 0 /\ OrdOf(e[1]) = 0
    /\ \A i \in 1..(Len(e) - 1) :
          \/ SeqOf(e[i + 1]) = SeqOf(e[i]) /\ OrdOf(e[i + 1]) = OrdOf(e[i]) + 1
          \/ SeqOf(e[i + 1]) = SeqOf(e[i]) + 1 /\ OrdOf(e[i + 1]) = 0

---------------------------------------------------------------------------
(* C1 *)

\* C1 as claimed: for every input list of Sequences, empty Sequences
\* included, the emitted jobs carry order_index 0,1,2,... inside each
\* Sequence and sequence_index starts at 0, never decreases and grows by
\* exactly 1 when emission moves to the next Sequence.
C1_StepsByOneAlways == StepsByOne(Emitted)

\* C1 as amended: order_index counts 0,1,2,... inside each Sequence and
\* sequence_index is the 0-based position of the job's Sequence in the input
\* list: it never decreases, the first job's index is the number of leading
\* empty Sequences, and when emission moves on the index grows by 1 plus the
\* number of empty Sequences skipped; with no empty Sequence in the input it
\* starts at 0 and grows by exactly 1.
C1_SequenceIsPosition ==
    LET e == Emitted
    IN  /\ \A i \in 1..Len(e) :
              /\ SeqOf(e[i]) \in 0..(Len(group) - 1)
              /\ OrdOf(e[i]) \in 0..(Len(group[SeqOf(e[i]) + 1]) - 1)
        /\ Len(e) > 0 =>
              /\ OrdOf(e[1]) = 0
              /\ \A t \in 1..SeqOf(e[1]) : Len(group[t]) = 0
        /\ \A i \in 1..(Len(e) - 1) :
              \/ /\ SeqOf(e[i + 1]) = SeqOf(e[i])
                 /\ OrdOf(e[i + 1]) = OrdOf(e[i]) + 1
              \/ /\ SeqOf(e[i + 1]) > SeqOf(e[i])
                 /\ OrdOf(e[i + 1]) = 0
                 /\ OrdOf(e[i]) + 1 = Len(group[SeqOf(e[i]) + 1])
                 /\ \A t \in (SeqOf(e[i]) + 2)..SeqOf(e[i + 1]) :
                       Len(group[t]) = 0
        /\ (\A t \in 1..Len(group) : Len(group[t]) > 0) => StepsByOne(e)

\* C1 witness: populate_ptuse_sbs has returned after emitting jobs on both
\* sides of an empty Sequence.
C1_Witness ==
    /\ pc = "returned"
    /\ \E i \in 1..(Len(Emitted) - 1) :
          SeqOf(Emitted[i + 1]) = SeqOf(Emitted[i]) + 2

---------------------------------------------------------------------------
(* C2 *)

\* C2: composing the literal group of key "default" emits exactly 9 jobs
\* with sequence_index 0,0,0,1,1,1,2,2,2 and order_index 0,1,2,0,1,2,0,1,2,
\* and the job at order_index 0 of each sequence is the phaseup step.
C2_DefaultGroup ==
    Selected("default") /\ pc \in { "returned", "pb_to_approved", "done" } =>
        /\ Len(db) = 9
        /\ Len(created_sbs) = 9
        /\ [ i \in 1..9 |-> db[i].sb_sequence ] =
              << Some(0), Some(0), Some(0), Some(1), Some(1), Some(1),
                 Some(2), Some(2), Some(2) >>
        /\ [ i \in 1..9 |-> db[i].sb_order ] =
              << Some(0), Some(1), Some(2), Some(0), Some(1), Some(2),
                 Some(0), Some(1), Some(2) >>
        /\ \A i \in 1..9 :
              (db[i].sb_order = Some(0)) <=>
                 (db[i].description =
                      Words(<< "MKAIV-405", "Generic", "AR1", "phaseup" >>))

\* C2 witness: the run on group key "default" has finished.
C2_Witness == Selected("default") /\ pc = "done" /\ Len(db) = 9

---------------------------------------------------------------------------
(* C3 *)

\* C3: when kind resolution fails at some step, no job of the campaign has
\* been created or approved in the scheduling service.
C3_NoJobAfterKindError ==
    pc = "failed" /\ error = "KeyError" => db = << >>

---------------------------------------------------------------------------
(* C4 *)

\* C4: when the scheduling service rejects the creation of a job, no job is
\* assigned to the program block, the program block is never defined or
\* approved, and no job created earlier in the run remains registered.
C4_NoJobAfterRejection ==
    /\ pc = "failed"
    /\ error = "SubmissionError"
    /\ calls[Len(calls)].op = "sb.new"
    => /\ pb.sbs = << >>
       /\ pb.state \notin { "DEFINED", "APPROVED" }
       /\ db = << >>

---------------------------------------------------------------------------
(* C5 *)

IsSbNew(c) == c.op = "sb.new" /\ c.sb # 0
IsAssign(c) == c.op = "pb.assign_sb"
IsSbCall(c) == c.op \in { "sb.new", "sb.to_defined", "sb.to_approved" }
IsFinalize(c) == c.op \in { "pb.to_defined", "pb.to_approved" }

\* the job was composed from the given step
ComposedFrom(sb, step) ==
    /\ sb.description = Description(step, registry[KindKey(step.target)])
    /\ sb.instruction_set =
          InstructionSet(step, registry[KindKey(step.target)])

\* C5: one job is created per step, in emission order (sequence-major, then
\* step order); handles are assigned to the program block only after all
\* jobs are created, in creation order and exactly once each; the program
\* block is finalized only after the last assignment.
C5_CreateAssignFinalize ==
    LET news == SelectSeq(calls, IsSbNew)
        asgs == SelectSeq(calls, IsAssign)
        e == Emitted
    IN  /\ \A k \in 1..Len(e) :
              /\ k <= Len(Flat(group))
              /\ ComposedFrom(e[k], Flat(group)[k])
              /\ e[k].id = news[k].sb
        /\ \A k, l \in 1..Len(e) :
              k < l => \/ SeqOf(e[k]) < SeqOf(e[l])
                       \/ SeqOf(e[k]) = SeqOf(e[l]) /\ OrdOf(e[k]) < OrdOf(e[l])
        /\ \A k, l \in 1..Len(news) : k # l => news[k].sb # news[l].sb
        /\ \A i, j \in 1..Len(calls) :
              IsAssign(calls[i]) /\ IsSbCall(calls[j]) => j < i
        /\ Len(asgs) > 0 => Len(news) = Len(Flat(group))
        /\ Len(asgs) <= Len(news)
        /\ \A k \in 1..Len(asgs) : asgs[k].sb = news[k].sb
        /\ \A i, j \in 1..Len(calls) :
              IsFinalize(calls[i]) /\ IsAssign(calls[j]) => j < i
        /\ (\E i \in 1..Len(calls) : IsFinalize(calls[i])) =>
              Len(asgs) = Len(news)
        /\ pc = "done" =>
              /\ Len(news) = Len(Flat(group))
              /\ pb.sbs = [ k \in 1..Len(news) |-> news[k].sb ]
              /\ pb.state = "APPROVED"

\* C5 witness: a run over two or more Sequences has created, assigned and
\* finalized at least three jobs.
C5_Witness ==
    /\ pc = "done"
    /\ Len(group) >= 2
    /\ Len(pb.sbs) >= 3
    /\ Len(SelectSeq(calls, IsAssign)) >= 3

---------------------------------------------------------------------------
(* C6 *)

\* C6: in the result of the tabular provider a boundary-kind step occurs
\* only at position 0 of its Sequence, every Sequence after the first begins
\* with a boundary-kind step, and so a boundary row that is not the first
\* row closes the Sequence before it and opens a new one.
C6_BoundaryOpensSequence ==
    CsvRead =>
        /\ \A i \in 1..Len(group) : \A j \in 1..Len(group[i]) :
              IsBoundary(group[i][j].target) => j = 1
        /\ \A i \in 2..Len(group) :
              Len(group[i]) > 0 /\ IsBoundary(group[i][1].target)
        /\ Len(Flat(group)) = Len(Rows)
        /\ \A k \in 1..Len(Rows) : Flat(group)[k].target = Rows[k].target

\* C6 witness: a file whose later row is a boundary row has been read into
\* two or more Sequences, the second opened by phaseupfb.
C6_Witness ==
    /\ CsvRead
    /\ Len(group) >= 2
    /\ Len(group[1]) >= 1
    /\ group[2][1].target = W("phaseupfb")

---------------------------------------------------------------------------
(* C7 *)

\* C7: a row whose time field is the empty string or absent yields a step
\* with no time override; a row with a non-empty time v yields the override
\* time = "-t v".
C7_TimeOverride ==
    CsvRead =>
        /\ Len(Flat(group)) = Len(Rows)
        /\ \A k \in 1..Len(Rows) :
              IF Rows[k].time = None \/ Rows[k].time = Some(EmptyStr)
              THEN "time" \notin DOMAIN Flat(group)[k]
              ELSE /\ "time" \in DOMAIN Flat(group)[k]
                   /\ Flat(group)[k].time = << "-t", SP >> \o Rows[k].time[1]

---------------------------------------------------------------------------
(* C8 *)

\* C8: the rows ("phaseup",""), ("J0437-4715","600"), ("phaseup",""),
\* ("J0738-4042","300") decompose into exactly two Sequences of length 2,
\* whose second steps carry the overrides "-t 600" and "-t 300" and whose
\* first steps carry no time override.
C8_RoundTrip ==
    CsvRead /\ config.file = Some(RoundTripFile) =>
        /\ Len(group) = 2
        /\ Len(group[1]) = 2
        /\ Len(group[2]) = 2
        /\ group[1][2].time = << "-t", SP, "600" >>
        /\ group[2][2].time = << "-t", SP, "300" >>
        /\ "time" \notin DOMAIN group[1][1]
        /\ "time" \notin DOMAIN group[2][1]

---------------------------------------------------------------------------
(* C9 *)

\* C9: for every list of rows, the empty list included, the result of the
\* tabular provider contains no empty Sequence.
C9_NoEmptySequence ==
    CsvRead => \A i \in 1..Len(group) : Len(group[i]) > 0

---------------------------------------------------------------------------
(* C10 *)

\* C10: a non-empty list of rows none of which is a boundary row produces
\* exactly one Sequence holding every row in file order, the read does not
\* raise, and no empty Sequence precedes it.
C10_NoBoundaryOneSequence ==
    /\ CsvRead
    /\ Len(Rows) > 0
    /\ \A k \in 1..Len(Rows) : ~IsBoundary(Rows[k].target)
    => /\ pc = "failed" => error = "SubmissionError"
       /\ Len(group) = 1
       /\ Len(group[1]) = Len(Rows)
       /\ \A k \in 1..Len(Rows) : group[1][k].target = Rows[k].target

\* C10 witness: a file of two or more rows, none a boundary row, has been
\* read.
C10_Witness ==
    /\ CsvRead
    /\ Len(Rows) >= 2
    /\ \A k \in 1..Len(Rows) : ~IsBoundary(Rows[k].target)
    /\ Len(group) = 1

---------------------------------------------------------------------------
(* C11 *)

\* the field names populate_ptuse_sbs resolves
Labels ==
    { "owner", "antenna_spec", "controlled_resources", "pb_id",
      "description_format", "instruction_set", "target", "time", "params",
      "ids", "notes" }

\* resolution as claimed: the override when present and non-empty, else the
\* record's value, else ""
NonEmptyOverride(step, rec, label) ==
    IF label \in DOMAIN step /\ step[label] # EmptyStr THEN step[label]
    ELSE IF label \in DOMAIN rec THEN rec[label]
    ELSE EmptyStr

\* resolution as amended: the override when present, else the record's
\* value, else ""
PresentOverride(step, rec, label) ==
    IF label \in DOMAIN step THEN step[label]
    ELSE IF label \in DOMAIN rec THEN rec[label]
    ELSE EmptyStr

\* the instruction string glued from the fields F resolves
Glued(F(_, _, _), step, rec) ==
    IF IsBoundary(step.target)
    THEN F(step, rec, "instruction_set") \o << SP >> \o F(step, rec, "time")
            \o << SP >> \o F(step, rec, "params")
            \o << SP >> \o F(step, rec, "ids")
    ELSE F(step, rec, "instruction_set") \o << SP >> \o F(step, rec, "target")
            \o << SP >> \o F(step, rec, "time")
            \o << SP >> \o F(step, rec, "params")
            \o << SP >> \o F(step, rec, "ids")

\* every emitted job carries the fields F resolves for its step
ResolvedBy(F(_, _, _)) ==
    \A k \in 1..Len(Emitted) :
        LET step == Flat(group)[k]
            rec == registry[KindKey(step.target)]
            job == Emitted[k]
        IN  /\ \A label \in Labels : F(step, rec, label) \in Seq(STRING)
            /\ job.owner = F(step, rec, "owner")
            /\ job.antenna_spec = F(step, rec, "antenna_spec")
            /\ job.controlled_resources = F(step, rec, "controlled_resources")
            /\ job.notes = F(step, rec, "notes")
            /\ job.pb_id = IF F(step, rec, "pb_id") = EmptyStr THEN None
                           ELSE Some(F(step, rec, "pb_id"))
            /\ job.instruction_set = Glued(F, step, rec)

\* C11 as claimed: a field resolves to the step's override when it is
\* present and non-empty, otherwise to the value of the selected defaults
\* record, otherwise to the empty string; an empty override resolves to the
\* defaults value.
C11_NonEmptyOverrideWins == ResolvedBy(NonEmptyOverride)

\* C11 as amended: a field resolves to the step's override whenever the step
\* has the field, the empty string included, otherwise to the value of the
\* selected defaults record, otherwise to the empty string; resolution fails
\* for no field name.
C11_PresentOverrideWins == ResolvedBy(PresentOverride)

\* C11 witness: a job has been emitted for a step whose time override is the
\* empty string.
C11_Witness ==
    \E k \in 1..Len(Emitted) :
        /\ "time" \in DOMAIN Flat(group)[k]
        /\ Flat(group)[k].time = EmptyStr

---------------------------------------------------------------------------
(* C12 *)

\* the text has no leading, no trailing and no two consecutive spaces
SingleSpaced(text) ==
    /\ Len(text) > 0 => text[1] # SP /\ text[Len(text)] # SP
    /\ \A i \in 1..(Len(text) - 1) : ~(text[i] = SP /\ text[i + 1] = SP)

\* C12: the instruction string of a boundary-kind job is prefix, time,
\* params and ids separated by single spaces: it has no two consecutive
\* spaces and no leading or trailing space.
C12_BoundarySingleSpaced ==
    \A k \in 1..Len(Emitted) :
        IsBoundary(Flat(group)[k].target) =>
            SingleSpaced(Emitted[k].instruction_set)

---------------------------------------------------------------------------
(* C13 *)

\* C13: for a kind that is not a boundary kind the instruction string is
\* prefix, target identifier, time, params, ids joined by single spaces in
\* that order, the target identifier being the step's literal kind string;
\* the instruction string of a boundary kind is prefix, time, params, ids
\* and holds the target identifier nowhere as a word.
C13_TargetInInstruction ==
    \A k \in 1..Len(Emitted) :
        LET step == Flat(group)[k]
            rec == registry[KindKey(step.target)]
            text == Emitted[k].instruction_set
            f(label) == PresentOverride(step, rec, label)
        IN  IF IsBoundary(step.target)
            THEN /\ text = f("instruction_set") \o << SP >> \o f("time")
                             \o << SP >> \o f("params") \o << SP >> \o f("ids")
                 /\ \A i \in 1..Len(text) : << text[i] >> # step.target
            ELSE text = f("instruction_set") \o << SP >> \o step.target
                           \o << SP >> \o f("time") \o << SP >> \o f("params")
                           \o << SP >> \o f("ids")

\* C13 witness: a finished run has emitted a phaseup job, a delaycal job and
\* a job for a pulsar name.
C13_Witness ==
    /\ pc = "done"
    /\ \E i, j, k \in 1..Len(Emitted) :
          /\ Flat(group)[i].target = W("phaseup")
          /\ Flat(group)[j].target = W("delaycal")
          /\ Flat(group)[k].target = W("J0437-4715")

---------------------------------------------------------------------------
(* C14 *)

\* the names of the registry entries a kind string can name
NamedKinds == { "phaseup", "phaseupfb", "delaycal" }

\* the entry a kind string names, "target" when it names none
NameOf(kind) ==
    IF \E n \in NamedKinds : kind = W(n)
    THEN CHOOSE n \in NamedKinds : kind = W(n)
    ELSE "target"

\* C14: the defaults record of a job is the one named "phaseup",
\* "phaseupfb" or "delaycal" exactly when the step's kind is that name and
\* the generic "target" record otherwise; every field the step does not
\* override (owner, antenna_spec, controlled_resources, notes, and time,
\* params, ids inside the instruction string) has that record's value.
C14_FieldsFromSelectedRecord ==
    \A k \in 1..Len(Emitted) :
        LET step == Flat(group)[k]
            rec == DEFAULTS[NameOf(step.target)]
            job == Emitted[k]
        IN  /\ \A label \in { "owner", "antenna_spec", "controlled_resources",
                              "notes" } :
                  label \notin DOMAIN step =>
                      job[label] = IF label \in DOMAIN rec THEN rec[label]
                                   ELSE EmptyStr
            /\ job.instruction_set = Glued(PresentOverride, step, rec)

\* C14 witness: a finished run has emitted a phaseupfb job, a delaycal job
\* and a job for a pulsar name, none overriding a field.
C14_Witness ==
    /\ pc = "done"
    /\ \E i, j, k \in 1..Len(Emitted) :
          /\ Flat(group)[i] = Step("phaseupfb")
          /\ Flat(group)[j] = Step("delaycal")
          /\ Flat(group)[k] = Step("J0437-4715")

---------------------------------------------------------------------------
(* C15 *)

\* C15: a step whose kind names no registry entry (such as "bogus_kind") is
\* served by the "target" record and never raises the unknown-kind error; a
\* step whose kind is "phaseup", "phaseupfb" or "delaycal" is served by the
\* entry of that name only: when the registry lacks it no job is made for
\* the step, populate_ptuse_sbs does not return and the only way on is the
\* unknown-kind error.
C15_FallbackOnlyForUnnamedKinds ==
    /\ \A k \in 1..Len(db) :
          NameOf(Flat(group)[k].target) \in DOMAIN registry
    /\ \A k \in 1..Len(Emitted) :
          Emitted[k].instruction_set =
              Glued(PresentOverride, Flat(group)[k],
                    registry[NameOf(Flat(group)[k].target)])
    /\ pc = "failed" /\ error = "KeyError" =>
          /\ InLoop
          /\ NameOf(sb_params.target) \in NamedKinds
          /\ NameOf(sb_params.target) \notin DOMAIN registry
    /\ InLoop /\ NameOf(sb_params.target) \notin DOMAIN registry =>
          /\ pc \in { "populate", "failed" }
          /\ pc = "failed" => error = "KeyError"
    /\ pc = "returned" => Len(db) = Len(Flat(group))

\* C15 witness: a job was composed for a bogus_kind step and the following
\* step, of a named kind the registry lacks, raised the unknown-kind error.
C15_Witness ==
    /\ pc = "failed"
    /\ error = "KeyError"
    /\ \E k \in 1..Len(Emitted) : Flat(group)[k].target = W("bogus_kind")

---------------------------------------------------------------------------
(* C16 *)

---------------------------------------------------------------------------
(* C17 *)

\* C17: a row whose target field is empty makes the tabular provider fail:
\* the run ends in an error, no step with an empty target is in the group
\* and no job is composed from the file.
C17_EmptyTargetFails ==
    CsvRead /\ (\E k \in 1..Len(Rows) : Rows[k].target = EmptyStr) =>
        /\ pc = "failed"
        /\ \A k \in 1..Len(Flat(group)) : Flat(group)[k].target # EmptyStr
        /\ db = << >>

---------------------------------------------------------------------------
(* C20 *)

\* C20: a job's description is the description_format of the record named
\* by its kind with the kind string in the place of the placeholder: a
\* phaseup step reads "MKAIV-405 Generic AR1 phaseup", a pulsar-name step
\* "MKAIV-387: CBF <name>".
C20_DescriptionFromFormat ==
    \A k \in 1..Len(Emitted) :
        LET step == Flat(group)[k]
            fmt == DEFAULTS[NameOf(step.target)].description_format
            text == Emitted[k].description
        IN  /\ fmt[Len(fmt)] = "{}"
            /\ text = SubSeq(fmt, 1, Len(fmt) - 1) \o step.target
            /\ step.target = W("phaseup") =>
                  text = << "MKAIV-405", SP, "Generic", SP, "AR1", SP,
                            "phaseup" >>
            /\ step.target = W("J0437-4715") =>
                  text = << "MKAIV-387:", SP, "CBF", SP, "J0437-4715" >>

\* C20 witness: a finished run has emitted a phaseup job and a job for the
\* pulsar J0437-4715.
C20_Witness ==
    /\ pc = "done"
    /\ \E i, j \in 1..Len(Emitted) :
          /\ Flat(group)[i].target = W("phaseup")
          /\ Flat(group)[j].target = W("J0437-4715")

---------------------------------------------------------------------------
\* C18: composing the same list of Sequences twice against the same registry
\* gives two job lists that are equal field for field (the identifier the
\* service assigns aside), with the same instruction strings, sb_sequence
\* and sb_order, whatever was composed between the two

\* a schedule block without the identifier the service gave it
SansId(sb) == [ f \in (DOMAIN sb) \ { "id" } |-> sb[f] ]

\* the jobs a completed call returned, as the service holds them
JobsOf(r) == [ i \in 1..Len(r.sbs) |-> SansId(db[r.sbs[i]]) ]

C18_SameGroupSameJobs ==
    \A a, b \in 1..Len(returned) :
        returned[a].group = returned[b].group =>
            /\ JobsOf(returned[a]) = JobsOf(returned[b])
            /\ \A i \in 1..Len(returned[a].sbs) :
                  LET x == db[returned[a].sbs[i]]
                      y == db[returned[b].sbs[i]]
                  IN  /\ x.instruction_set = y.instruction_set
                      /\ x.sb_sequence = y.sb_sequence
                      /\ x.sb_order = y.sb_order

C18_Witness ==
    /\ Len(returned) = 3
    /\ returned[1].group = returned[3].group
    /\ returned[2].group # returned[1].group
    /\ Len(returned[1].sbs) >= 2
    /\ Len(returned[2].sbs) >= 1
    /\ returned[3].sbs # returned[1].sbs

---------------------------------------------------------------------------
\* C19: composition changes neither the registry nor the list of Sequences
\* it was given: in every step of populate_ptuse_sbs, up to its return or
\* its failure, every DEFAULTS record and every step specification keeps
\* exactly the fields and values it had

C19_RegistryAndGroupUnchanged ==
    [][registry' = registry /\ group' = group]_vars

C19_Witness ==
    /\ pc = "failed"
    /\ error = "KeyError"
    /\ registry # DEFAULTS
    /\ \E k \in 1..Len(db) : IsFilled(db[k]) /\ db[k].state = "APPROVED"

---------------------------------------------------------------------------
(* C21 *)

\* the schedule block of the k-th step of the literal default group, as a
\* finished run leaves it in the scheduling service
DefaultJob(k) ==
    LET seq == (k - 1) \div 3
        ord == (k - 1) % 3
        step == sb_groups_default[seq + 1][ord + 1]
        rec == DEFAULTS[KindKey(step.target)]
    IN  [ FilledSb(NewSb(k, step, rec), step, rec, seq, ord)
              EXCEPT !.state = "APPROVED" ]

\* C21: a csv file whose lines list, with no time field, the steps of the
\* literal group "default" in order is read into a list of Sequences equal
\* to that literal group, and the run on the file and the run on the group
\* key "default" leave the same nine jobs in the scheduling service.
C21_ProvidersInterchangeable ==
    /\ read_group_from_csv(DefaultFile) = sb_groups_default
    /\ CsvRead /\ config.file = Some(DefaultFile) => group = GROUPS["default"]
    /\ pc = "done" /\ (config.file = Some(DefaultFile) \/ Selected("default")) =>
          /\ db = [ k \in 1..9 |-> DefaultJob(k) ]
          /\ pb.sbs = [ k \in 1..9 |-> k ]

\* C21 witness: the run on the file of the default group's steps has
\* finished.
C21_Witness ==
    /\ config.file = Some(DefaultFile)
    /\ pc = "done"
    /\ Len(db) = 9

---------------------------------------------------------------------------
(* C22 *)

\* C22: the tabular provider neither loses, duplicates nor reorders rows:
\* the Sequences of its result, one after the other, hold exactly one step
\* per row, in file order, each with its row's target.
C22_RowsKeptInOrder ==
    CsvRead =>
        LET steps == Flat(group)
        IN  /\ Len(steps) = Len(Rows)
            /\ [ k \in 1..Len(steps) |-> steps[k].target ] =
                  [ k \in 1..Len(Rows) |-> Rows[k].target ]

\* C22 witness: three rows, the first and the last with the same target and
\* another between them, have been read into two or more Sequences.
C22_Witness ==
    /\ CsvRead
    /\ Len(Rows) = 3
    /\ Rows[1].target = Rows[3].target
    /\ Rows[2].target # Rows[1].target
    /\ Len(group) >= 2

---------------------------------------------------------------------------
(* C23 *)

\* the boundary rows among rows 2..k
BoundaryRowsUpTo(k) == { j \in 2..k : IsBoundary(Rows[j].target) }

\* C23: for a non-empty list of rows the provider produces 1 plus as many
\* Sequences as there are boundary rows after the first row; of two
\* consecutive boundary rows the first is alone in its Sequence and the
\* second opens the next one.
C23_SequenceCount ==
    CsvRead /\ Len(Rows) > 0 =>
        /\ Len(group) = 1 + Cardinality(BoundaryRowsUpTo(Len(Rows)))
        /\ \A k \in 1..(Len(Rows) - 1) :
              IsBoundary(Rows[k].target) /\ IsBoundary(Rows[k + 1].target) =>
                  LET i == 1 + Cardinality(BoundaryRowsUpTo(k))
                  IN  /\ i + 1 <= Len(group)
                      /\ Len(group[i]) = 1
                      /\ group[i][1].target = Rows[k].target
                      /\ group[i + 1][1].target = Rows[k + 1].target
        /\ Len(Rows) = 2 /\ IsBoundary(Rows[1].target)
              /\ IsBoundary(Rows[2].target) => Len(group) = 2

\* C23 witness: a file opening with two boundary rows and a further row has
\* been read.
C23_Witness ==
    /\ CsvRead
    /\ Len(Rows) = 3
    /\ IsBoundary(Rows[1].target)
    /\ IsBoundary(Rows[2].target)
    /\ Len(group) = 2
    /\ Len(group[1]) = 1

---------------------------------------------------------------------------
(* C24 *)

\* C24: the program block is created before any job; each job is moved to
\* defined and then to approved, its sequence and order set, before the next
\* job is created; the program block is moved to defined, and right after to
\* approved, only after every created job has been assigned to it.
C24_RunOrder ==
    /\ \A i \in 1..Len(calls) : (calls[i].op = "pb.new") <=> (i = 1)
    /\ \A i \in 1..Len(calls) :
          IsSbNew(calls[i]) =>
              /\ i + 1 <= Len(calls) =>
                    calls[i + 1] = Call("sb.to_defined", calls[i].sb)
              /\ i + 2 <= Len(calls) =>
                    calls[i + 2] = Call("sb.to_approved", calls[i].sb)
    /\ \A i \in 2..Len(calls) :
          calls[i].op = "sb.new" =>
              calls[i - 1].op \in { "pb.new", "sb.to_approved" }
    /\ \A k \in 1..Len(db) :
          db[k].state # "DRAFT" =>
              db[k].sb_sequence # None /\ db[k].sb_order # None
    /\ \A i \in 1..Len(calls) :
          calls[i].op = "pb.to_defined" =>
              \A j \in 1..Len(calls) :
                  IsSbNew(calls[j]) =>
                      \E a \in (j + 1)..(i - 1) :
                          calls[a] = Call("pb.assign_sb", calls[j].sb)
    /\ \A i \in 1..Len(calls) :
          calls[i].op = "pb.to_approved" =>
              i > 1 /\ calls[i - 1].op = "pb.to_defined"

\* C24 witness: a run on a csv file has created two or more jobs and
\* approved the program block.
C24_Witness ==
    /\ config.file # None
    /\ pc = "done"
    /\ Len(db) >= 2
    /\ calls[Len(calls)].op = "pb.to_approved"

---------------------------------------------------------------------------
(* C30 *)

\* the requests of a complete run of make_ptuse, in order
MakeRun ==
    << Call("obsbuild", 0), Call("obs.status", 0), Call("sb.new", 1),
       Call("sb.to_defined", 1), Call("sb.to_approved", 1),
       Call("sb.unload", 1) >>

\* C30: with the user or the target missing make_ptuse exits before it
\* connects to the observation database and creates nothing; otherwise its
\* one schedule block goes through new, to_defined, to_approved and unload
\* in that order, and its instruction set, antenna spec and controlled
\* resources are set before to_defined.
C30_MakeOneBlock ==
    /\ config.user = None \/ config.target = None =>
          /\ calls = << >>
          /\ db = << >>
          /\ pc \in { "make_options", "failed" }
          /\ pc = "failed" => error = "SystemExit"
    /\ Len(db) <= 1
    /\ \/ calls = SubSeq(MakeRun, 1, Len(calls))
       \/ calls = << Call("obsbuild", 0), Call("obs.status", 0),
                     Call("sb.new", 0) >>
    /\ \A k \in 1..Len(db) :
          db[k].state # "DRAFT" =>
              /\ db[k].instruction_set = MakeInstructionSet(config)
              /\ db[k].antenna_spec = config.antennas
              /\ db[k].controlled_resources_spec = W("cbf,sdp,ptuse_1")
              /\ config.issue = W("MKAIV-388") /\ config.duration = 600
                    /\ config.target = Some(W("J0437-4715")) =>
                    db[k].instruction_set =
                        << "run-obs-script", SP,
                           "/home/kat/katusescripts/ptuse/beamform_single_pulsar.py",
                           SP, SP, "--proposal-id='FST-TRNS'", SP,
                           "--program-block-id='", "MKAIV-388", "'", SP,
                           "--issue-id='", "MKAIV-388", "'", SP,
                           "-B", SP, "856", SP, "-F", SP, "1284", SP,
                           "-t", SP, "6", "0", "0", SP,
                           "'", "J0437-4715", "'", SP, "--horizon", SP, "20" >>
    /\ pc = "done" =>
          /\ calls = MakeRun
          /\ db[1].state = "APPROVED"
          /\ ~ db[1].loaded

\* C30 witness: a run with a user and the target J0437-4715 for 600 s has
\* unloaded its approved schedule block.
C30_Witness ==
    /\ pc = "done"
    /\ config.user = Some(W("sarah"))
    /\ config.target = Some(W("J0437-4715"))
    /\ config.duration = 600
    /\ calls[Len(calls)] = Call("sb.unload", 1)

---------------------------------------------------------------------------
(* The requests of the observation scripts *)

IsOp(i, op) == calls[i].op = op
IsStart(i) == IsOp(i, "ptuse_target_start")
IsStop(i) == IsOp(i, "ptuse_target_stop")
IsMainTrack(i) == IsOp(i, "track") /\ calls[i].args[2] = "target_duration"
IsPatternStart(i) == IsOp(i, "dig_noise_source") /\ calls[i] # NoiseOff
IsBelow(i) == IsOp(i, "azel") /\ calls[i].args[2] = "below"
Ended == pc \in { "done", "failed" }

---------------------------------------------------------------------------
(* C25 *)

\* C25: in beamform_fluxcal, once a noise-source pattern has been started
\* on any antenna the script sends dig_noise_source('now', 0) before it
\* ends, whatever path it takes after the start.
C25_PatternSwitchedOff ==
    config.script = Fluxcal /\ Ended =>
        \A i \in 1..Len(calls) :
            IsPatternStart(i) =>
                \E j \in (i + 1)..Len(calls) : calls[j] = NoiseOff

---------------------------------------------------------------------------
(* C26 *)

\* C26: in the single-pulsar observation (and the same statements of
\* beamform_fluxcal) capture_start comes after the 5 s track onto the
\* target and, for a drift scan, after the track to the transit point;
\* ptuse_target_start comes after capture_start; the track of
\* target_duration lies between ptuse_target_start and ptuse_target_stop;
\* and at the end of the session every ptuse_target_start has been followed
\* by a ptuse_target_stop.
C26_CaptureOrder ==
    config.script \in { SinglePulsar, Fluxcal } =>
        \A i \in 1..Len(calls) :
            /\ IsOp(i, "capture_start") =>
                  \E a \in 1..(i - 1) :
                      /\ calls[a] = Track(TargetName, "5")
                      /\ config.drift_scan =>
                            \E b \in (a + 1)..(i - 1) :
                                calls[b] = Track("transit", "0")
            /\ IsStart(i) => \E a \in 1..(i - 1) : IsOp(a, "capture_start")
            /\ IsMainTrack(i) =>
                  /\ \E a \in 1..(i - 1) : IsStart(a)
                  /\ \A b \in 1..(i - 1) : ~ IsStop(b)
            /\ IsStop(i) =>
                  \E a \in 1..(i - 1) : \E b \in (a + 1)..(i - 1) :
                      IsStart(a) /\ IsMainTrack(b)
            /\ calls[i] = SessionEnd =>
                  \A a \in 1..(i - 1) :
                      IsStart(a) => \E b \in (a + 1)..(i - 1) : IsStop(b)

\* C26 witness: a single-pulsar drift scan has run to its end.
C26_Witness ==
    /\ config.script = SinglePulsar
    /\ config.drift_scan
    /\ pc = "done"
    /\ \E i \in 1..Len(calls) : IsStop(i)

---------------------------------------------------------------------------
(* C27 *)

\* C27: in beamform_flux_1, for every value --cal may take, a run that is
\* neither a dry run nor refused with ValueError observes at least one
\* target; ptuse_target_start and ptuse_target_stop alternate, a start
\* first and a stop last, and capture_start comes before each start.
C27_EveryCalObserves ==
    config.script = Flux1 =>
        /\ Ended /\ ~ config.dry_run /\ error # "ValueError" =>
              \E i \in 1..Len(calls) : IsStart(i)
        /\ \A i \in 1..Len(calls) :
              /\ IsStart(i) =>
                    /\ \E a \in 1..(i - 1) : IsOp(a, "capture_start")
                    /\ \A a \in 1..(i - 1) :
                          IsStart(a) => \E b \in (a + 1)..(i - 1) : IsStop(b)
              /\ IsStop(i) =>
                    \E a \in 1..(i - 1) :
                        /\ IsStart(a)
                        /\ \A b \in (a + 1)..(i - 1) : ~ IsStop(b) /\ ~ IsStart(b)
        /\ Ended =>
              \A a \in 1..Len(calls) :
                  IsStart(a) => \E b \in (a + 1)..Len(calls) : IsStop(b)

---------------------------------------------------------------------------
(* C28 *)

\* the set-up of the beamformer streams is over
SetUpOver == \E i \in 1..Len(calls) : IsOp(i, "add") \/ IsOp(i, "collect_targets")

\* C28: a refused passband request is the last request of the script: it
\* raises ValueError, so no later stream is configured, no script argument
\* is stored, no session is started, nothing is tracked and nothing is
\* asked of PTUSE.  A refused weights request is followed by a warning for
\* that input and the set-up goes on: when it is over every input of every
\* stream has had its weights request.
C28_PassbandRaisesWeightsWarn ==
    /\ \A i \in 1..Len(calls) :
          IsOp(i, "passband") /\ ~ calls[i].ok =>
              /\ i = Len(calls)
              /\ pc = "failed"
              /\ error = "ValueError"
    /\ \A i \in 1..Len(calls) :
          IsOp(i, "weights") /\ ~ calls[i].ok =>
              /\ i + 1 <= Len(calls)
              /\ calls[i + 1] =
                    Req("user_logger", "warning",
                        << calls[i].args[1], calls[i].args[2] >>, TRUE)
              /\ i + 1 = Len(calls) => pc # "failed"
    /\ SetUpOver =>
          \A s \in 1..Len(Beamformers) :
              /\ \E i \in 1..Len(calls) :
                    /\ calls[i].on = Beamformers[s]
                    /\ IsOp(i, "passband")
                    /\ calls[i].ok
              /\ \A k \in 1..Len(StreamInputs(Beamformers[s])) :
                    \E i \in 1..Len(calls) :
                        /\ calls[i].on = Beamformers[s]
                        /\ IsOp(i, "weights")
                        /\ calls[i].args[1] = StreamInputs(Beamformers[s])[k].ant
                        /\ calls[i].args[2] = StreamInputs(Beamformers[s])[k].pol

\* C28 witness: a weights request of the first stream was refused, the
\* set-up went on, and the passband request of the second stream was
\* refused.
C28_Witness ==
    /\ pc = "failed"
    /\ Len(calls) > 0
    /\ calls[Len(calls)].on = "beam_0y"
    /\ IsOp(Len(calls), "passband")
    /\ \E i \in 1..Len(calls) :
          calls[i].on = "beam_0x" /\ IsOp(i, "weights") /\ ~ calls[i].ok

---------------------------------------------------------------------------
(* C29 *)

\* C29: when the target is below the horizon and the run is not a dry run
\* the script raises ValueError at once, so no capture_start and no
\* ptuse_target_start is ever sent; only beamform_fluxcal gets as far as
\* the horizon test in a dry run, and it then logs a warning and goes on.
C29_NoCaptureBelowHorizon ==
    \A i \in 1..Len(calls) :
        IsBelow(i) =>
            IF ~ config.dry_run
            THEN /\ pc = "failed"
                 /\ error = "ValueError"
                 /\ \A j \in 1..Len(calls) :
                       ~ IsOp(j, "capture_start") /\ ~ IsStart(j)
                 /\ \A j \in (i + 1)..Len(calls) : calls[j] = SessionEnd
            ELSE /\ config.script = Fluxcal
                 /\ i + 1 <= Len(calls)
                 /\ calls[i + 1] =
                       Req("user_logger", "warn", << MainTarget >>, TRUE)
                 /\ i + 1 = Len(calls) => pc # "failed"

\* C29 witness: beamform_fluxcal, not a dry run, found its target below the
\* horizon inside the session and raised.
C29_Witness ==
    /\ config.script = Fluxcal
    /\ ~ config.dry_run
    /\ pc = "failed"
    /\ \E i \in 1..Len(calls) : IsBelow(i)
    /\ \E i \in 1..Len(calls) : IsOp(i, "start_session")

=============================================================================
